---- MODULE Spec2Model ----
(***************************************************************************)
(* Model of the collaboration relay of src/mcp_server.py: a stdio          *)
(* dispatcher loop (main), the request handler (handle_mcp_request) and    *)
(* the SQLite table `messages` that several relay processes share.         *)
(*                                                                         *)
(* Text is modelled as a sequence of tokens.  Agent identifiers and the    *)
(* read_by column are sequences of one-character tokens, so that the       *)
(* substring tests of the code (SQL LIKE, Python `in`) and str.strip are   *)
(* computed character by character.                                        *)
(***************************************************************************)
EXTENDS Integers, Sequences, FiniteSets, TLC

VARIABLES
    db,         \* committed rows of table messages, in rowid order
    seq,        \* sqlite_sequence of the AUTOINCREMENT key: largest id handed out
    clock,      \* CURRENT_TIMESTAMP, in whole seconds
    pc,         \* per relay process: position in main()
    req,        \* per relay: the input line being served
    rows,       \* per relay: unread_rows fetched by the SELECT of get_messages
    out,        \* per relay: the last response line the running process printed
    nRead,      \* per relay: input lines read so far, over its processes
    nWritten,   \* per relay: response lines printed so far, over its processes
    delivered   \* history: <<message id, agent id>> pairs returned in a response

vars == <<db, seq, clock, pc, req, rows, out, nRead, nWritten, delivered>>

(***************************************************************************)
(* Bounds of the model.                                                    *)
(***************************************************************************)
MaxMsgs  == 2      \* rows the table may hold
MaxLines == 3      \* input lines the relays read, all together

Relays == {"r1", "r2"}

(***************************************************************************)
(* Text values.                                                            *)
(***************************************************************************)
Empty   == << >>
Comma   == <<",">>
Percent == <<"%">>
Id1     == <<"1">>
Id12    == <<"1", "2">>
Unknown == <<"u", "n", "k", "n", "o", "w", "n">>
Null    == "null"

\* values of the agent_id argument that the model sends
ArgAgents   == {Empty, Id1, Id12}
\* values of the message argument that the model sends
ArgMessages == {<<"m1">>}
\* values of the request id that the model sends
ReqIds      == {"1"}

\* dict.get(key, default)
Get(d, k, default) == IF k \in DOMAIN d THEN d[k] ELSE default

(***************************************************************************)
(* String functions used by the handler.                                   *)
(***************************************************************************)
\* Python `sub in s` on strings: sub occurs in s as a contiguous substring
Contains(s, sub) ==
    \E i \in 1..(Len(s) - Len(sub) + 1) : SubSeq(s, i, i + Len(sub) - 1) = sub

\* SQL `s LIKE pat`: % matches any run of characters, _ any one character.
\* (LIKE also folds ASCII case; the identifiers of the model have no letters
\* that differ in case only.)
RECURSIVE Like(_, _)
Like(s, pat) ==
    IF pat = << >> THEN s = << >>
    ELSE IF Head(pat) = "%"
         THEN \E k \in 0..Len(s) : Like(SubSeq(s, k + 1, Len(s)), Tail(pat))
    ELSE IF s = << >> THEN FALSE
    ELSE (Head(pat) = "_" \/ Head(pat) = Head(s)) /\ Like(Tail(s), Tail(pat))

\* Python s.lstrip(',') and s.rstrip(',')
RECURSIVE LStrip(_)
LStrip(s) == IF s # << >> /\ Head(s) = "," THEN LStrip(Tail(s)) ELSE s
RECURSIVE RStrip(_)
RStrip(s) ==
    IF s # << >> /\ s[Len(s)] = "," THEN RStrip(SubSeq(s, 1, Len(s) - 1)) ELSE s
\* Python s.strip(',')
Strip(s) == RStrip(LStrip(s))

\* s.split(','): the comma-separated entries of a read_by value
RECURSIVE Split(_)
Split(s) ==
    IF \E i \in 1..Len(s) : s[i] = ","
    THEN LET i == CHOOSE j \in 1..Len(s) :
                      s[j] = "," /\ \A k \in 1..(j - 1) : s[k] # ","
         IN  {SubSeq(s, 1, i - 1)} \cup Split(SubSeq(s, i + 1, Len(s)))
    ELSE {s}

(***************************************************************************)
(* Input lines.  A line either fails json.loads, or parses to a value that *)
(* is no JSON object, or parses to a request object (a dict).              *)
(***************************************************************************)
EmptyDict == [k \in {} |-> 0]

Malformed == [parse |-> "error"]
NonObject == [parse |-> "ok", object |-> FALSE]
ObjectLine(request) == [parse |-> "ok", object |-> TRUE, value |-> request]

SendArgs ==
    {[agent_id |-> a, message |-> m] : a \in ArgAgents, m \in ArgMessages}
        \cup {[message |-> m] : m \in ArgMessages}
GetArgs == {[agent_id |-> a] : a \in ArgAgents} \cup {EmptyDict}

Requests ==
    {[id |-> i, method |-> m, params |-> EmptyDict] :
        i \in ReqIds, m \in {"initialize", "tools/list", "foo"}}
    \cup {[method |-> m, params |-> EmptyDict] : m \in {"initialize", "foo"}}
    \cup {[id |-> i, method |-> "tools/call",
           params |-> [name |-> "send", arguments |-> a]] :
              i \in ReqIds, a \in SendArgs}
    \cup {[id |-> i, method |-> "tools/call",
           params |-> [name |-> "get_messages", arguments |-> a]] :
              i \in ReqIds, a \in GetArgs}
    \cup {[id |-> i, method |-> "tools/call",
           params |-> [name |-> "bar", arguments |-> EmptyDict]] : i \in ReqIds}
    \cup {[id |-> i, method |-> "tools/call"] : i \in ReqIds}

Lines == {Malformed, NonObject} \cup {ObjectLine(q) : q \in Requests}

NoLine == EmptyDict
NoRows == << >>

(***************************************************************************)
(* The table.                                                              *)
(***************************************************************************)
\* (mutant) a new row that counts its sender as a reader
NewRowReadBySender(sender, message_text, now) ==
    [id |-> seq + 1, sender |-> sender, message |-> message_text,
     timestamp |-> now, read_by |-> sender]

\* (mutant) a new row whose id is taken from the clock
NewRowIdFromClock(sender, message_text, now) ==
    [id |-> now + 1, sender |-> sender, message |-> message_text,
     timestamp |-> now, read_by |-> Empty]

\* the row that INSERT INTO messages (sender, message) adds
NewRow(sender, message_text, now) ==
    [id |-> seq + 1, sender |-> sender, message |-> message_text,
     timestamp |-> now, read_by |-> Empty]

\* (mutant) the WHERE clause without its sender test
UnreadAnySender(row, agent_id) ==
    \/ ~Like(row.read_by, Percent \o agent_id \o Percent)
    \/ row.read_by = Empty

\* WHERE sender != ? AND (read_by NOT LIKE ? OR read_by = '')
Unread(row, agent_id) ==
    /\ row.sender # agent_id
    /\ \/ ~Like(row.read_by, Percent \o agent_id \o Percent)
       \/ row.read_by = Empty

\* ORDER BY timestamp ASC: any order of the rows that is ascending in the
\* timestamp; SQL leaves the order of rows with equal timestamps open
OrderedByTimestamp(S) ==
    {s \in [1..Cardinality(S) -> S] :
        /\ \A i, j \in DOMAIN s : i # j => s[i] # s[j]
        /\ \A i, j \in DOMAIN s : i < j => s[i].timestamp <= s[j].timestamp}

\* the results the SELECT of get_messages may fetch
SelectUnread(table, agent_id) ==
    OrderedByTimestamp({table[i] : i \in {k \in DOMAIN table : Unread(table[k], agent_id)}})

\* (mutant) a marker that is replaced by the reader instead of extended
UpdatedReadByOverwrite(current_read_by, agent_id) == agent_id

\* updated_read_by = f"{current_read_by},{agent_id}".strip(',')
UpdatedReadBy(current_read_by, agent_id) ==
    Strip(current_read_by \o Comma \o agent_id)

\* (mutant) a mark-as-read loop whose UPDATE is not restricted to the
\* fetched row
MarkReadAll(table, unread_rows, agent_id) ==
    [i \in DOMAIN table |->
        IF unread_rows # << >> /\ ~Contains(table[i].read_by, agent_id)
        THEN [table[i] EXCEPT !.read_by = UpdatedReadBy(table[i].read_by, agent_id)]
        ELSE table[i]]

\* the mark-as-read loop: UPDATE messages SET read_by = ? WHERE id = ? for
\* every fetched row whose fetched read_by does not contain agent_id
MarkRead(table, unread_rows, agent_id) ==
    [i \in DOMAIN table |->
        IF \E k \in DOMAIN unread_rows :
              /\ unread_rows[k].id = table[i].id
              /\ ~Contains(unread_rows[k].read_by, agent_id)
        THEN LET k == CHOOSE k \in DOMAIN unread_rows : unread_rows[k].id = table[i].id
             IN  [table[i] EXCEPT !.read_by = UpdatedReadBy(unread_rows[k].read_by, agent_id)]
        ELSE table[i]]

\* f"[STATUS] {row[1]}: {row[2]}"
StatusLine(row) == <<"[STATUS] ">> \o row.sender \o <<": ">> \o row.message

\* "\n".join(lines)
RECURSIVE JoinLines(_)
JoinLines(lines) ==
    IF lines = << >> THEN << >>
    ELSE IF Len(lines) = 1 THEN lines[1]
    ELSE lines[1] \o <<"\n">> \o JoinLines(Tail(lines))

\* the text of a get_messages response
Content(unread_rows) ==
    JoinLines([k \in DOMAIN unread_rows |-> StatusLine(unread_rows[k])])

(***************************************************************************)
(* Response envelopes.                                                     *)
(***************************************************************************)
\* (mutant) a response id that is the same for every request
RequestIdFixed(request) == "1"

\* request.get("id")
RequestId(request) == Get(request, "id", Null)

Result(id, text) == [id |-> id, result |-> text]
Error(id, code, message) == [id |-> id, error |-> code, message |-> message]

\* str(e) of the exceptions the loop catches
JSONDecodeError == "json.JSONDecodeError"
AttributeError  == "AttributeError: object has no attribute 'get'"
StorageFailure  == "sqlite3.Error"

ParseErrorCode     == -32700
MethodNotFoundCode == -32601
InternalErrorCode  == -32603

\* print(json.dumps(response), flush=True), then back to the top of the loop
Respond(r, response) ==
    /\ out' = [out EXCEPT ![r] = response]
    /\ nWritten' = [nWritten EXCEPT ![r] = @ + 1]
    /\ pc' = [pc EXCEPT ![r] = "idle"]
    /\ req' = [req EXCEPT ![r] = NoLine]

\* the request being served, and its fields as handle_mcp_request reads them
IsRequest(r)  == pc[r] = "handling" /\ req[r].parse = "ok" /\ req[r].object
Method(r)     == Get(req[r].value, "method", "")
Params(r)     == Get(req[r].value, "params", EmptyDict)
ToolName(r)   == Get(Params(r), "name", "")
Arguments(r)  == Get(Params(r), "arguments", EmptyDict)
AgentId(r)    == Get(Arguments(r), "agent_id", Unknown)

(***************************************************************************)
(* Initial state: the table has been created empty and every relay sits at *)
(* the top of its loop.                                                    *)
(***************************************************************************)
Init ==
    /\ db = << >>
    /\ seq = 0
    /\ clock = 0
    /\ pc = [r \in Relays |-> "idle"]
    /\ req = [r \in Relays |-> NoLine]
    /\ rows = [r \in Relays |-> NoRows]
    /\ out = [r \in Relays |-> EmptyDict]
    /\ nRead = [r \in Relays |-> 0]
    /\ nWritten = [r \in Relays |-> 0]
    /\ delivered = {}

(***************************************************************************)
(* main(): one turn of the loop.                                           *)
(***************************************************************************)
\* input lines read by all relays
RECURSIVE Sum(_, _)
Sum(f, S) == IF S = {} THEN 0 ELSE LET x == CHOOSE x \in S : TRUE IN f[x] + Sum(f, S \ {x})
LinesRead == Sum(nRead, Relays)

\* lines that call the tool send, and the relays that are serving one
IsSend(line) ==
    /\ line.parse = "ok"
    /\ line.object
    /\ Get(line.value, "method", "") = "tools/call"
    /\ Get(Get(line.value, "params", EmptyDict), "name", "") = "send"
Sending == {r \in Relays : pc[r] = "handling" /\ IsSend(req[r])}

\* line = sys.stdin.readline(), a non-empty line
ReadLine(r) ==
    /\ pc[r] = "idle"
    /\ LinesRead < MaxLines
    /\ \E line \in Lines :
          /\ IsSend(line) => Len(db) + Cardinality(Sending) < MaxMsgs
          /\ req' = [req EXCEPT ![r] = line]
    /\ nRead' = [nRead EXCEPT ![r] = @ + 1]
    /\ pc' = [pc EXCEPT ![r] = "handling"]
    /\ UNCHANGED <<db, seq, clock, rows, out, nWritten, delivered>>

\* readline() returns "": break
EndOfInput(r) ==
    /\ pc[r] = "idle"
    /\ pc' = [pc EXCEPT ![r] = "down"]
    /\ UNCHANGED <<db, seq, clock, req, rows, out, nRead, nWritten, delivered>>

\* (mutant) init_database that creates the table anew
init_database_recreate(r) ==
    /\ pc[r] = "down"
    /\ db' = << >>
    /\ seq' = 0
    /\ pc' = [pc EXCEPT ![r] = "idle"]
    /\ out' = [out EXCEPT ![r] = EmptyDict]
    /\ UNCHANGED <<clock, req, rows, nRead, nWritten, delivered>>

\* a new process: init_database() (CREATE TABLE IF NOT EXISTS), then main()
init_database(r) ==
    /\ pc[r] = "down"
    /\ db' = db
    /\ seq' = seq
    /\ pc' = [pc EXCEPT ![r] = "idle"]
    /\ out' = [out EXCEPT ![r] = EmptyDict]
    /\ UNCHANGED <<clock, req, rows, nRead, nWritten, delivered>>

\* (mutant) a parse error that is logged and not answered
ParseErrorSilent(r) ==
    /\ pc[r] = "handling"
    /\ req[r].parse = "error"
    /\ pc' = [pc EXCEPT ![r] = "idle"]
    /\ req' = [req EXCEPT ![r] = NoLine]
    /\ UNCHANGED <<db, seq, clock, rows, out, nRead, nWritten, delivered>>

\* (mutant) a parse error answered with the id of the internal error
ParseErrorAsInternal(r) ==
    /\ pc[r] = "handling"
    /\ req[r].parse = "error"
    /\ Respond(r, Error(Null, InternalErrorCode, <<"Internal error: ", JSONDecodeError>>))
    /\ UNCHANGED <<db, seq, clock, rows, nRead, delivered>>

\* json.loads raises JSONDecodeError
ParseError(r) ==
    /\ pc[r] = "handling"
    /\ req[r].parse = "error"
    /\ Respond(r, Error(Null, ParseErrorCode, <<"Parse error: ", JSONDecodeError>>))
    /\ UNCHANGED <<db, seq, clock, rows, nRead, delivered>>

\* (mutant) an unexpected exception that ends the loop
InternalErrorExits(r) ==
    /\ pc[r] = "handling"
    /\ req[r].parse = "ok"
    /\ ~req[r].object
    /\ out' = [out EXCEPT ![r] = Error(Null, InternalErrorCode, <<"Internal error: ", AttributeError>>)]
    /\ nWritten' = [nWritten EXCEPT ![r] = @ + 1]
    /\ pc' = [pc EXCEPT ![r] = "down"]
    /\ req' = [req EXCEPT ![r] = NoLine]
    /\ UNCHANGED <<db, seq, clock, rows, nRead, delivered>>

\* the line parses to a value without .get: AttributeError, caught by
\* `except Exception`
InternalError(r) ==
    /\ pc[r] = "handling"
    /\ req[r].parse = "ok"
    /\ ~req[r].object
    /\ Respond(r, Error(Null, InternalErrorCode, <<"Internal error: ", AttributeError>>))
    /\ UNCHANGED <<db, seq, clock, rows, nRead, delivered>>

(***************************************************************************)
(* handle_mcp_request.                                                     *)
(***************************************************************************)
Initialize(r) ==
    /\ IsRequest(r)
    /\ Method(r) = "initialize"
    /\ Respond(r, Result(RequestId(req[r].value), <<"collaboration-server">>))
    /\ UNCHANGED <<db, seq, clock, rows, nRead, delivered>>

\* (mutant) a tool list that offers get_messages only once a message exists
ToolsWhenLogged(table) ==
    IF table = << >> THEN <<"send">> ELSE <<"send", "get_messages">>

\* the names of the descriptors in the tools/list result
Tools(table) == <<"send", "get_messages">>

ListTools(r) ==
    /\ IsRequest(r)
    /\ Method(r) = "tools/list"
    /\ Respond(r, Result(RequestId(req[r].value), Tools(db)))
    /\ UNCHANGED <<db, seq, clock, rows, nRead, delivered>>

\* tool send: INSERT, commit, confirmation.  CURRENT_TIMESTAMP has a
\* resolution of one second: the new row carries the second of the row
\* before it or a later one.
Send(r) ==
    /\ IsRequest(r)
    /\ Method(r) = "tools/call"
    /\ ToolName(r) = "send"
    /\ LET sender       == AgentId(r)
           message_text == Get(Arguments(r), "message", Empty)
       IN  /\ \E now \in {clock, clock + 1} :
                 /\ clock' = now
                 /\ db' = Append(db, NewRow(sender, message_text, now))
           /\ seq' = seq + 1
           /\ Respond(r, Result(RequestId(req[r].value),
                                <<"Message sent: ">> \o message_text))
    /\ UNCHANGED <<rows, nRead, delivered>>

\* tool get_messages, first half: the SELECT and fetchall.  The sqlite3
\* module opens a transaction only before the first UPDATE, so the SELECT
\* holds no lock once fetchall has returned and other processes may commit
\* between the two halves.
GetSelect(r) ==
    /\ IsRequest(r)
    /\ Method(r) = "tools/call"
    /\ ToolName(r) = "get_messages"
    /\ \E unread_rows \in SelectUnread(db, AgentId(r)) :
          rows' = [rows EXCEPT ![r] = unread_rows]
    /\ pc' = [pc EXCEPT ![r] = "selected"]
    /\ UNCHANGED <<db, seq, clock, req, out, nRead, nWritten, delivered>>

\* tool get_messages, second half: the mark-as-read loop, commit, response.
\* The UPDATEs become visible to other processes together, at the commit.
GetMark(r) ==
    /\ pc[r] = "selected"
    /\ db' = MarkRead(db, rows[r], AgentId(r))
    /\ delivered' = delivered \cup
                      {<<rows[r][k].id, AgentId(r)>> : k \in DOMAIN rows[r]}
    /\ rows' = [rows EXCEPT ![r] = NoRows]
    /\ Respond(r, Result(RequestId(req[r].value), Content(rows[r])))
    /\ UNCHANGED <<seq, clock, nRead>>

(***************************************************************************)
(* Storage errors: execute or commit raises sqlite3.Error (the database is *)
(* locked, the disk fails).  The exception leaves handle_mcp_request with  *)
(* the connection neither committed nor closed; the connection is released *)
(* with the frame, which rolls its open transaction back.  main answers    *)
(* from `except Exception`.                                                *)
(***************************************************************************)
\* (mutant) a failure that leaves the statements run so far committed
RollbackKeeps(committed, pending) == pending

\* the table after a connection with uncommitted statements is released
Rollback(committed, pending) == committed

StorageErrorResponse ==
    Error(Null, InternalErrorCode, <<"Internal error: ", StorageFailure>>)

\* tool send: the INSERT or the commit raises
SendFails(r) ==
    /\ IsRequest(r)
    /\ Method(r) = "tools/call"
    /\ ToolName(r) = "send"
    /\ \E inserted \in BOOLEAN :
          LET message_text == Get(Arguments(r), "message", Empty)
              pending == IF inserted
                         THEN Append(db, NewRow(AgentId(r), message_text, clock))
                         ELSE db
          IN  db' = Rollback(db, pending)
    /\ Respond(r, StorageErrorResponse)
    /\ UNCHANGED <<seq, clock, rows, nRead, delivered>>

\* tool get_messages: the SELECT raises
GetSelectFails(r) ==
    /\ IsRequest(r)
    /\ Method(r) = "tools/call"
    /\ ToolName(r) = "get_messages"
    /\ Respond(r, StorageErrorResponse)
    /\ UNCHANGED <<db, seq, clock, rows, nRead, delivered>>

\* tool get_messages: an UPDATE of the mark-as-read loop, or the commit,
\* raises after n rows have been updated
GetMarkFails(r) ==
    /\ pc[r] = "selected"
    /\ \E n \in 0..Len(rows[r]) :
          db' = Rollback(db, MarkRead(db, SubSeq(rows[r], 1, n), AgentId(r)))
    /\ rows' = [rows EXCEPT ![r] = NoRows]
    /\ Respond(r, StorageErrorResponse)
    /\ UNCHANGED <<seq, clock, nRead, delivered>>

\* (mutant) the fall-through answering with a null id
MethodNotFoundNullId(r) ==
    /\ IsRequest(r)
    /\ Method(r) \notin {"initialize", "tools/list"}
    /\ Method(r) = "tools/call" => ToolName(r) \notin {"send", "get_messages"}
    /\ Respond(r, Error(Null, MethodNotFoundCode, <<"Method not found: ", Method(r)>>))
    /\ UNCHANGED <<db, seq, clock, rows, nRead, delivered>>

\* the fall-through: unknown method, or tools/call with an unknown tool name
MethodNotFound(r) ==
    /\ IsRequest(r)
    /\ Method(r) \notin {"initialize", "tools/list"}
    /\ Method(r) = "tools/call" => ToolName(r) \notin {"send", "get_messages"}
    /\ Respond(r, Error(RequestId(req[r].value), MethodNotFoundCode,
                         <<"Method not found: ", Method(r)>>))
    /\ UNCHANGED <<db, seq, clock, rows, nRead, delivered>>

\* the steps of the relays in R
NextOf(R) ==
    \/ \E r \in R : ReadLine(r)
    \/ \E r \in R : EndOfInput(r)
    \/ \E r \in R : init_database(r)
    \/ \E r \in R : ParseError(r)
    \/ \E r \in R : InternalError(r)
    \/ \E r \in R : Initialize(r)
    \/ \E r \in R : ListTools(r)
    \/ \E r \in R : Send(r)
    \/ \E r \in R : GetSelect(r)
    \/ \E r \in R : GetMark(r)
    \/ \E r \in R : SendFails(r)
    \/ \E r \in R : GetSelectFails(r)
    \/ \E r \in R : GetMarkFails(r)
    \/ \E r \in R : MethodNotFound(r)

\* several relay processes on one store
Next == NextOf(Relays)
Spec == Init /\ [][Next]_vars

\* one relay process alone on the store
NextSingle == NextOf({"r1"})
SpecSingle == Init /\ [][NextSingle]_vars

(***************************************************************************)
(* Properties.                                                             *)
(***************************************************************************)
\* the agent ids that occur as sender or reader
AgentIds == ArgAgents \cup {Unknown}

\* the row of the table with the given id
RowOf(id) == db[CHOOSE i \in DOMAIN db : db[i].id = id]

\* relay r takes the SELECT step of get_messages
Selects(r) == pc[r] = "handling" /\ pc'[r] = "selected"

\* C1: no get_messages(A) response contains a message whose stored sender
\* is A: neither the rows fetched for A nor any message ever returned to A.
C1_NoOwnMessage ==
    /\ \A r \in Relays : pc[r] = "selected" =>
          \A k \in DOMAIN rows[r] : rows[r][k].sender # AgentId(r)
    /\ \A p \in delivered : RowOf(p[1]).sender # p[2]

\* an agent with a message of its own in the log has been returned a message
C1_Witness ==
    \E p \in delivered : \E i \in DOMAIN db : db[i].sender = p[2]

\* C2: get_messages(A), for a non-empty id A, returns every message of
\* another sender that has not been returned to A before, whoever else has
\* read it.
C2_ReturnsAllUnretrieved ==
    [][\A r \in Relays : (Selects(r) /\ AgentId(r) # Empty) =>
          \A i \in DOMAIN db :
             (db[i].sender # AgentId(r) /\ <<db[i].id, AgentId(r)>> \notin delivered)
                => \E k \in DOMAIN rows'[r] : rows'[r][k].id = db[i].id]_vars

\* C3: on a single relay, no get_messages(A) fetches a message that an
\* earlier get_messages(A) has returned.
C3_NoRedelivery ==
    \A r \in Relays : pc[r] = "selected" =>
        \A k \in DOMAIN rows[r] : <<rows[r][k].id, AgentId(r)>> \notin delivered

\* C4: the rows one get_messages call fetches are in strictly ascending id
\* order.
C4_AscendingIds ==
    \A r \in Relays : pc[r] = "selected" =>
        \A i, j \in DOMAIN rows[r] : i < j => rows[r][i].id < rows[r][j].id

\* C5: once no get_messages is in flight, every message returned to a
\* (non-empty) agent id carries that id as an entry of its read-by marker.
C5_MarksKept ==
    (\A r \in Relays : pc[r] # "selected") =>
        \A p \in delivered :
            p[2] # Empty => p[2] \in Split(RowOf(p[1]).read_by)

\* C6: stopping a relay and starting a new one leaves every message in
\* place with its id, sender and content, and unread for exactly the agents
\* it was unread for.
C6_RestartKeepsLog ==
    [][\A r \in Relays :
          ((pc[r] = "idle" /\ pc'[r] = "down") \/ (pc[r] = "down" /\ pc'[r] = "idle"))
          => \/ db' = db
             \/ /\ Len(db') = Len(db)
                /\ \A i \in DOMAIN db :
                      /\ db'[i].id = db[i].id
                      /\ db'[i].sender = db[i].sender
                      /\ db'[i].message = db[i].message
                      /\ \A a \in AgentIds :
                            Unread(db'[i], a) <=> Unread(db[i], a)]_vars

\* a relay that served requests has been restarted (its new process has
\* printed nothing yet) on a log that holds a message somebody has read
C6_Witness ==
    \E r \in Relays :
        /\ pc[r] = "idle" /\ nRead[r] > 0 /\ out[r] = EmptyDict
        /\ \E i \in DOMAIN db : db[i].read_by # Empty

\* C7: the first get_messages(A) of a relay that has stored nothing itself
\* returns every message of another sender in the store that has not been
\* returned to A.
C7_SendVisibleAcrossRelays ==
    [][\A r \in Relays : (Selects(r) /\ nRead[r] = 1) =>
          \A i \in DOMAIN db :
             (db[i].sender # AgentId(r) /\ <<db[i].id, AgentId(r)>> \notin delivered)
                => \E k \in DOMAIN rows'[r] : rows'[r][k].id = db[i].id]_vars

\* C8: every line read has exactly one response: a relay at the top of its
\* loop has printed as many lines as it has read, and a relay serving a
\* line has printed one fewer.
C8_OneResponsePerLine ==
    \A r \in Relays :
        /\ pc[r] \in {"idle", "down"} => nWritten[r] = nRead[r]
        /\ pc[r] \in {"handling", "selected"} => nWritten[r] + 1 = nRead[r]

\* a relay has answered two lines, the last one with an error
C8_Witness ==
    \E r \in Relays :
        pc[r] = "idle" /\ nWritten[r] >= 2 /\ "error" \in DOMAIN out[r]

\* C9: the response to an unsupported method, or to a tool call naming an
\* unknown tool, is the error -32601 with the request's id, and the table
\* is left as it was.
C9_MethodNotFound ==
    [][\A r \in Relays :
          LET request == req[r].value
              method  == Get(request, "method", "")
              tool    == Get(Get(request, "params", EmptyDict), "name", "")
          IN  (/\ pc[r] = "handling" /\ req[r].parse = "ok" /\ req[r].object
               /\ \/ method \notin {"initialize", "tools/list", "tools/call"}
                  \/ method = "tools/call" /\ tool \notin {"send", "get_messages"}
               /\ pc'[r] # pc[r])
              => /\ out'[r].id = Get(request, "id", "null")
                 /\ "error" \in DOMAIN out'[r] /\ out'[r].error = -32601
                 /\ pc'[r] = "idle"
                 /\ db' = db]_vars

\* a relay has answered -32601 while the log holds a message
C9_Witness ==
    \E r \in Relays :
        /\ "error" \in DOMAIN out[r] /\ out[r].error = -32601
        /\ db # << >>

\* C10: the response to a line that does not parse is the error -32700
\* with a null id, the table is left as it was, and the relay is back at
\* the top of its loop.
C10_ParseError ==
    [][\A r \in Relays :
          (pc[r] = "handling" /\ req[r].parse = "error" /\ pc'[r] # pc[r])
          => /\ out'[r].id = "null"
             /\ "error" \in DOMAIN out'[r] /\ out'[r].error = -32700
             /\ pc'[r] = "idle"
             /\ db' = db]_vars

\* a relay is serving the line that followed one it answered with -32700,
\* on a log that holds a message
C10_Witness ==
    \E r \in Relays :
        /\ pc[r] = "handling"
        /\ "error" \in DOMAIN out[r] /\ out[r].error = -32700
        /\ db # << >>

\* C11: every stored message has a non-empty sender.
C11_SenderNotEmpty ==
    \A i \in DOMAIN db : db[i].sender # Empty

\* relay r is serving a call of the tool send or get_messages
ServesTool(r) ==
    /\ pc[r] \in {"handling", "selected"}
    /\ req[r].parse = "ok" /\ req[r].object
    /\ Get(req[r].value, "method", "") = "tools/call"
    /\ Get(Get(req[r].value, "params", EmptyDict), "name", "") \in {"send", "get_messages"}

\* C12: a send or get_messages that is answered with an error is answered
\* with -32603, and the table is as it was before the request: no row
\* added, no read-by marker changed.
C12_FailedCallNotApplied ==
    [][\A r \in Relays :
          (ServesTool(r) /\ pc'[r] = "idle" /\ "error" \in DOMAIN out'[r])
          => /\ out'[r].error = -32603
             /\ db' = db]_vars

\* a get_messages that had fetched rows to mark has failed
C12_Witness ==
    \E r \in Relays :
        /\ pc[r] = "idle"
        /\ "error" \in DOMAIN out[r]
        /\ out[r].message = <<"Internal error: ", StorageFailure>>
        /\ \E i \in DOMAIN db : db[i].read_by = Empty /\ db[i].sender # Empty

\* C13: serving initialize or tools/list leaves the table as it was, and
\* every tools/list response names the same tools, send and get_messages.
C13_ListToolsStable ==
    [][\A r \in Relays :
          LET method == Get(req[r].value, "method", "")
          IN  (/\ pc[r] = "handling" /\ req[r].parse = "ok" /\ req[r].object
               /\ method \in {"initialize", "tools/list"}
               /\ pc'[r] # pc[r])
              => /\ db' = db
                 /\ seq' = seq
                 /\ delivered' = delivered
                 /\ "result" \in DOMAIN out'[r]
                 /\ method = "tools/list"
                       => out'[r].result = <<"send", "get_messages">>]_vars

\* the last response of a relay is the tool list, on a log that holds a
\* message somebody has read
C13_Witness ==
    \E r \in Relays :
        /\ "result" \in DOMAIN out[r] /\ out[r].result = <<"send", "get_messages">>
        /\ \E i \in DOMAIN db : db[i].read_by # Empty

\* C14: a relay stops only from the top of its loop, on end of input, and
\* without reading or printing; a step that prints an error response (parse
\* error, method not found, internal error) leaves it at the top of its
\* loop, running.
C14_StopsOnlyAtEndOfInput ==
    [][\A r \in Relays :
          /\ (pc'[r] = "down" /\ pc[r] # "down")
                => /\ pc[r] = "idle"
                   /\ nRead'[r] = nRead[r]
                   /\ nWritten'[r] = nWritten[r]
          /\ (nWritten'[r] # nWritten[r] /\ "error" \in DOMAIN out'[r])
                => pc'[r] = "idle"]_vars

\* a relay that answered an internal error went on to read the next line,
\* and another relay has stopped at end of input after serving a line
C14_Witness ==
    \E r1, r2 \in Relays :
        /\ pc[r1] = "handling"
        /\ "error" \in DOMAIN out[r1] /\ out[r1].error = -32603
        /\ pc[r2] = "down" /\ nWritten[r2] > 0

\* C15: a send answered with a result adds exactly one row, with the
\* sender (the sentinel when agent_id is absent) and the content of the
\* request and an empty read-by marker, and changes no existing row.
C15_SendAddsOneRow ==
    [][\A r \in Relays :
          LET arguments ==
                  Get(Get(req[r].value, "params", EmptyDict), "arguments", EmptyDict)
          IN  (/\ pc[r] = "handling" /\ IsSend(req[r])
               /\ pc'[r] = "idle" /\ "result" \in DOMAIN out'[r])
              => /\ Len(db') = Len(db) + 1
                 /\ SubSeq(db', 1, Len(db)) = db
                 /\ db'[Len(db')].sender = Get(arguments, "agent_id", Unknown)
                 /\ db'[Len(db')].message = Get(arguments, "message", Empty)
                 /\ db'[Len(db')].read_by = Empty
                 /\ out'[r].result = <<"Message sent: ">> \o db'[Len(db')].message]_vars

\* a send has been confirmed on a log whose earlier message carries a
\* read-by marker
C15_Witness ==
    \E r \in Relays :
        /\ "result" \in DOMAIN out[r] /\ out[r].result # << >>
        /\ Head(out[r].result) = "Message sent: "
        /\ Len(db) = 2
        /\ db[1].read_by # Empty
        /\ db[2].read_by = Empty

\* the agent ids that are entries of a read-by marker
Entries(read_by) == Split(read_by) \ {Empty}

\* relay r is serving a call of the tool get_messages
ServesGet(r) ==
    /\ pc[r] \in {"handling", "selected"}
    /\ req[r].parse = "ok" /\ req[r].object
    /\ Get(req[r].value, "method", "") = "tools/call"
    /\ Get(Get(req[r].value, "params", EmptyDict), "name", "") = "get_messages"

\* the steps of get_messages keep every row with its id, sender, content
\* and timestamp, and change the read-by marker of fetched rows only, and
\* only in the step that returns them
C16_Frame ==
    [][\A r \in Relays : (ServesGet(r) /\ pc'[r] # pc[r]) =>
          /\ Len(db') = Len(db)
          /\ seq' = seq
          /\ \A i \in DOMAIN db :
                /\ db'[i].id = db[i].id
                /\ db'[i].sender = db[i].sender
                /\ db'[i].message = db[i].message
                /\ db'[i].timestamp = db[i].timestamp
                /\ db'[i].read_by # db[i].read_by
                      => /\ "result" \in DOMAIN out'[r]
                         /\ \E k \in DOMAIN rows[r] : rows[r][k].id = db[i].id]_vars

\* C16: get_messages adds and removes no message and changes no id, sender
\* or content; it changes the read-by marker of the messages it returns
\* only; and with a single relay no step ever takes an agent id out of a
\* read-by marker.
C16_GetOnlyMarks ==
    [][/\ \A r \in Relays : (ServesGet(r) /\ pc'[r] # pc[r]) =>
             /\ Len(db') = Len(db)
             /\ \A i \in DOMAIN db :
                   /\ db'[i].id = db[i].id
                   /\ db'[i].sender = db[i].sender
                   /\ db'[i].message = db[i].message
                   /\ db'[i].read_by # db[i].read_by
                         => /\ "result" \in DOMAIN out'[r]
                            /\ \E k \in DOMAIN rows[r] : rows[r][k].id = db[i].id
       /\ \A i \in DOMAIN db :
             /\ i \in DOMAIN db'
             /\ Entries(db[i].read_by) \subseteq Entries(db'[i].read_by)]_vars

\* a message carries the ids of two readers
C16_Witness ==
    \E i \in DOMAIN db : Cardinality(Entries(db[i].read_by)) = 2

\* C17: the ids of the table are strictly increasing in append order (so
\* no two rows share one), and none exceeds the AUTOINCREMENT counter.
C17_IdsIncrease ==
    /\ \A i, j \in DOMAIN db : i < j => db[i].id < db[j].id
    /\ \A i \in DOMAIN db : db[i].id >= 1 /\ db[i].id <= seq

\* each of two relays has stored a message, within the same second
C17_Witness ==
    /\ Len(db) = 2
    /\ db[1].timestamp = db[2].timestamp
    /\ \A r \in Relays :
          /\ "result" \in DOMAIN out[r] /\ out[r].result # << >>
          /\ Head(out[r].result) = "Message sent: "

\* C18: every response that carries a result carries the id of the request
\* it answers (null when the request has none).
C18_ResultEchoesId ==
    [][\A r \in Relays :
          (/\ pc[r] \in {"handling", "selected"}
           /\ nWritten'[r] # nWritten[r]
           /\ "result" \in DOMAIN out'[r])
          => /\ req[r].parse = "ok" /\ req[r].object
             /\ out'[r].id = Get(req[r].value, "id", "null")]_vars

\* one relay has answered a request without id with a result, the other a
\* get_messages with id "1" that returned a message
C18_Witness ==
    \E r1, r2 \in Relays :
        /\ "result" \in DOMAIN out[r1] /\ out[r1].id = "null"
        /\ "result" \in DOMAIN out[r2] /\ out[r2].id = "1"
        /\ out[r2].result # << >> /\ Head(out[r2].result) = "[STATUS] "

====
